---------------------------- MODULE Spec2Model ----------------------------
(***************************************************************************)
(* Model of qis/perfstats/returns.py: the return converter, the NAV        *)
(* reconstructors, the fee accrual engine, the portfolio aggregator, the   *)
(* total and annualised return and the volatility estimator.               *)
(*                                                                         *)
(* Floating point values are modelled as exact extended rationals:         *)
(*   <<n, d>> with d > 0 and gcd(n, d) = 1   the number n/d                *)
(*   <<0, 0>>  NaN (pandas' missing value)                                 *)
(*   <<1, 0>>  +inf        <<-1, 0>>  -inf                                 *)
(*   <<n, d, 1>>  the natural logarithm ln(n/d) of a positive rational     *)
(*                other than 1 (a value of the log domain)                 *)
(*   <<n, d, 3>>  the square root of n/d where it is not rational          *)
(*   <<n, d, p, q, 2>>  (n/d)^(p/q) - 1 where the power is not rational    *)
(* A Series is a sequence of values; its index is the position, except in  *)
(* create_nav_from_returns, which carries the dates explicitly.            *)
(***************************************************************************)
EXTENDS Integers, Sequences, FiniteSets, TLC

VARIABLES pc,                \* position of the modelled call
          man_fee,           \* compute_net_return: annual management fee
          perf_fee,          \* compute_net_return: performance fee rate
          perf_cris_dates,   \* compute_net_return: crystallization flag per row
          nav_data,          \* compute_net_return: the state table, one record per date
          net_return,        \* compute_net_return: the returned series
          call,              \* the arguments of a function call
          result,            \* what the call returned or raised
          caller             \* the caller's own objects, as they are after the call

vars == <<pc, man_fee, perf_fee, perf_cris_dates, nav_data, net_return, call, result,
          caller>>

---------------------------------------------------------------------------
(* Bounds of the model *)

MaxRows == 3        \* dates of a gross return series
MaxLen == 3         \* rows of a price or return series
MaxPortRows == 2    \* rows of the weights and returns tables

---------------------------------------------------------------------------
(* Extended rational arithmetic (IEEE semantics for NaN and infinities) *)

NaN == <<0, 0>>
PInf == <<1, 0>>
NInf == <<-1, 0>>

Abs(n) == IF n < 0 THEN -n ELSE n

Sgn(n) == IF n < 0 THEN -1 ELSE IF n > 0 THEN 1 ELSE 0

RECURSIVE GCD(_, _)
GCD(a, b) == IF b = 0 THEN a ELSE GCD(b, a % b)

\* the normal form of n/d, d # 0
Norm(n, d) ==
    LET g == GCD(Abs(n), Abs(d))
        s == IF d < 0 THEN -1 ELSE 1
    IN <<(s * n) \div g, (s * d) \div g>>

R(n, d) == Norm(n, d)

Zero == <<0, 1>>
One == <<1, 1>>

IsNaN(x) == x = NaN
IsFinite(x) == Len(x) = 2 /\ x[2] > 0
IsInf(x) == x = PInf \/ x = NInf

Neg(a) == IF Len(a) = 3 THEN <<a[2], a[1], 1>> ELSE <<-a[1], a[2]>>

Add(a, b) ==
    IF IsNaN(a) \/ IsNaN(b) THEN NaN
    ELSE IF IsInf(a) /\ IsInf(b) THEN (IF a = b THEN a ELSE NaN)
    ELSE IF IsInf(a) THEN a
    ELSE IF IsInf(b) THEN b
    ELSE Norm(a[1] * b[2] + b[1] * a[2], a[2] * b[2])

Sub(a, b) == Add(a, Neg(b))

Mul(a, b) ==
    IF IsNaN(a) \/ IsNaN(b) THEN NaN
    ELSE IF IsInf(a) \/ IsInf(b)
         THEN (IF a[1] = 0 \/ b[1] = 0 THEN NaN
               ELSE <<Sgn(a[1]) * Sgn(b[1]), 0>>)
    ELSE Norm(a[1] * b[1], a[2] * b[2])

Div(a, b) ==
    IF IsNaN(a) \/ IsNaN(b) THEN NaN
    ELSE IF IsInf(b) THEN (IF IsInf(a) THEN NaN ELSE Zero)
    ELSE IF b[1] = 0 THEN (IF a[1] = 0 THEN NaN ELSE <<Sgn(a[1]), 0>>)
    ELSE IF IsInf(a) THEN <<Sgn(a[1]) * Sgn(b[1]), 0>>
    ELSE Norm(a[1] * b[2], a[2] * b[1])

\* a < b; every comparison with NaN is false.  Finite values are compared
\* by their integer parts first, then by cross multiplication.
Lt(a, b) ==
    IF IsNaN(a) \/ IsNaN(b) \/ a = b THEN FALSE
    ELSE IF a = NInf \/ b = PInf THEN TRUE
    ELSE IF a = PInf \/ b = NInf THEN FALSE
    ELSE IF a[1] \div a[2] # b[1] \div b[2] THEN a[1] \div a[2] < b[1] \div b[2]
    ELSE a[1] * b[2] < b[1] * a[2]

Le(a, b) == ~IsNaN(a) /\ ~IsNaN(b) /\ (a = b \/ Lt(a, b))

\* np.maximum: propagates NaN
Maximum(a, b) ==
    IF IsNaN(a) \/ IsNaN(b) THEN NaN ELSE IF Lt(a, b) THEN b ELSE a

\* np.log; the logarithm of a positive rational other than 1 stays symbolic
Ln(x) ==
    IF IsNaN(x) \/ x = NInf THEN NaN
    ELSE IF x = PInf THEN PInf
    ELSE IF x[1] < 0 THEN NaN
    ELSE IF x[1] = 0 THEN NInf
    ELSE IF x = One THEN Zero
    ELSE <<x[1], x[2], 1>>

\* np.exp on the values of the log domain
Exp(v) ==
    IF IsNaN(v) THEN NaN
    ELSE IF v = PInf THEN PInf
    ELSE IF v = NInf THEN Zero
    ELSE IF v = Zero THEN One
    ELSE <<v[1], v[2]>>

\* Python's None, for an optional value
None == <<>>

---------------------------------------------------------------------------
(* compute_net_return: the fee accrual engine *)

ManFees == {Zero, R(1, 5)}
PerfFees == {Zero, R(1, 5)}
GrossReturns == {R(-6, 5), R(-1, 20), Zero, R(1, 10)}
DayGaps == {365, 730}

StartValue == R(100, 1)

ManFeeDtNoGap(mf, days) == Div(mf, R(365, 1))

\* line 343: man_fee * (date - last_date).days / 365.0
ManFeeDt(mf, days) == Div(Mul(mf, R(days, 1)), R(365, 1))

\* line 345: (1 + gross return - man_fee_dt) * GAV of the last date
GrossAssetValue(g, fee_dt, last_gav) == Mul(Sub(Add(One, g), fee_dt), last_gav)

AccruedFeeNoFloor(pf, gav, last_hwm) == Mul(pf, Sub(gav, last_hwm))

\* line 347: perf_fee * max(GAV - HWM of the last date, 0)
AccruedFee(pf, gav, last_hwm) == Mul(pf, Maximum(Sub(gav, last_hwm), Zero))

CrystallizedHWMNoMax(nav, last_hwm) == nav

\* line 353: HWM on a crystallization date
CrystallizedHWM(nav, last_hwm) == Maximum(nav, last_hwm)

CrystallizedGAVKept(gav, cpf) == gav

\* line 354: GAV on a crystallization date
CrystallizedGAV(gav, cpf) == Sub(gav, cpf)

\* lines 331-339: the first row of the table; date is the day of the index
FirstRow(g) ==
    [date |-> 0, gross |-> g, NAV |-> StartValue, GAV |-> StartValue, PF |-> Zero,
     HWM |-> StartValue, CPF |-> Zero]

NextRowNeverCrystallized(last, g, days, cris, mf, pf) ==
    LET fee_dt == ManFeeDt(mf, days)
        gav == GrossAssetValue(g, fee_dt, last.GAV)
        accrued == AccruedFee(pf, gav, last.HWM)
    IN [date |-> last.date + days, gross |-> g, NAV |-> Sub(gav, accrued),
        GAV |-> gav, PF |-> accrued, HWM |-> last.HWM, CPF |-> Zero]

\* lines 343-354: the row of a date from the row of the last date
NextRow(last, g, days, cris, mf, pf) ==
    LET fee_dt == ManFeeDt(mf, days)
        gav == GrossAssetValue(g, fee_dt, last.GAV)
        accrued == AccruedFee(pf, gav, last.HWM)
        nav == Sub(gav, accrued)
    IN IF cris
       THEN [date |-> last.date + days, gross |-> g, NAV |-> nav,
             GAV |-> CrystallizedGAV(gav, accrued),
             PF |-> accrued, HWM |-> CrystallizedHWM(nav, last.HWM),
             CPF |-> accrued]
       ELSE [date |-> last.date + days, gross |-> g, NAV |-> nav, GAV |-> gav,
             PF |-> accrued, HWM |-> last.HWM, CPF |-> Zero]

NetReturnSeriesFirstKept(table) ==
    [t \in 1..Len(table) |->
        IF t = 1 THEN NaN
        ELSE Sub(Div(table[t].NAV, table[t - 1].NAV), One)]

\* lines 356-358: NAV / NAV.shift(1) - 1 with the first entry set to zero
NetReturnSeries(table) ==
    [t \in 1..Len(table) |->
        IF t = 1 THEN Zero
        ELSE Sub(Div(table[t].NAV, table[t - 1].NAV), One)]

NoCall == [fn |-> "none"]
NoResult == [status |-> "none"]

InitFee ==
    /\ pc = "loop"
    /\ man_fee \in ManFees
    /\ perf_fee \in PerfFees
    /\ \E g \in GrossReturns : nav_data = <<FirstRow(g)>>
    /\ perf_cris_dates \in {<<FALSE>>, <<TRUE>>}
    /\ net_return = <<>>
    /\ call = NoCall
    /\ result = NoResult
    /\ caller = NoCall

\* one pass of the loop of line 341
FeeStep ==
    /\ pc = "loop"
    /\ Len(nav_data) < MaxRows
    /\ \E g \in GrossReturns, days \in DayGaps, cris \in BOOLEAN :
          /\ nav_data' = Append(nav_data,
                 NextRow(nav_data[Len(nav_data)], g, days, cris, man_fee, perf_fee))
          /\ perf_cris_dates' = Append(perf_cris_dates, cris)
    /\ UNCHANGED <<pc, man_fee, perf_fee, net_return, call, result, caller>>

\* the loop ends with the last date: lines 356-361
FeeReturn ==
    /\ pc = "loop"
    /\ net_return' = NetReturnSeries(nav_data)
    /\ pc' = "done"
    /\ UNCHANGED <<man_fee, perf_fee, perf_cris_dates, nav_data, call, result, caller>>

NextFee == FeeStep \/ FeeReturn

SpecFee == InitFee /\ [][NextFee]_vars

---------------------------------------------------------------------------
(* Claims about the fee accrual engine *)

Rows == 1..Len(nav_data)

\* C1: at every date after the first the high-water mark is at least the
\* high-water mark of the date before: HWM is monotone non-decreasing.
C1_HWMMonotone ==
    \A t \in Rows : t > 1 => Le(nav_data[t - 1].HWM, nav_data[t].HWM)

\* a run in which one crystallization raised the mark and a later
\* crystallization, with NAV below the mark, left it where it was
C1_Witness ==
    \E t \in Rows, u \in Rows :
        /\ 1 < t /\ t < u
        /\ perf_cris_dates[t] /\ Lt(nav_data[t - 1].HWM, nav_data[t].HWM)
        /\ perf_cris_dates[u] /\ Lt(nav_data[u].NAV, nav_data[u - 1].HWM)
        /\ nav_data[u].HWM = nav_data[u - 1].HWM

\* C2: in every row of the state table, on crystallization dates and on
\* ordinary dates, NAV is at most GAV (the fee rate is non-negative).
C2_NavAtMostGav ==
    \A t \in Rows : Le(nav_data[t].NAV, nav_data[t].GAV)

\* a finished run with a fee accrued on an ordinary date (NAV < GAV) and a
\* fee crystallized on another (NAV = GAV)
C2_Witness ==
    /\ pc = "done"
    /\ \E t \in Rows, u \in Rows :
        /\ t > 1 /\ ~perf_cris_dates[t] /\ Lt(nav_data[t].NAV, nav_data[t].GAV)
        /\ u > 1 /\ perf_cris_dates[u] /\ Lt(Zero, nav_data[u].CPF)
        /\ nav_data[u].NAV = nav_data[u].GAV

\* C3: on every crystallization date the GAV stored after the crystallized
\* fee was deducted does not exceed the HWM stored for that date.
C3_GavAtMostHwmOnCrystallization ==
    \A t \in Rows : perf_cris_dates[t] => Le(nav_data[t].GAV, nav_data[t].HWM)

\* a crystallization date on which a positive fee was deducted from GAV
C3_Witness ==
    \E t \in Rows :
        /\ t > 1 /\ perf_cris_dates[t]
        /\ Lt(Zero, nav_data[t].CPF)
        /\ nav_data[t].GAV = nav_data[t].HWM

\* the larger of a and b, two numbers
Larger(a, b) == IF Lt(a, b) THEN b ELSE a

\* the days between the date of row t and the date before
DaysElapsed(t) == nav_data[t].date - nav_data[t - 1].date

\* the GAV of date t before any crystallization:
\* GAV of t-1 times (1 + gross return - man_fee * days / 365)
AccruedGAV(t) ==
    Mul(nav_data[t - 1].GAV,
        Sub(Add(One, nav_data[t].gross),
            Div(Mul(man_fee, R(DaysElapsed(t), 1)), R(365, 1))))

\* C21: the first row has GAV = NAV = HWM = 100 and no fees; on every later
\* date that is not a crystallization date GAV is the GAV of the date before
\* times (1 + gross return - man_fee * days / 365), PF is perf_fee times
\* the excess of GAV over the HWM of the date before, floored at zero, NAV
\* is GAV less PF and HWM is the HWM of the date before.
C21_AccrualRecurrence ==
    /\ nav_data[1].GAV = R(100, 1) /\ nav_data[1].NAV = R(100, 1)
    /\ nav_data[1].HWM = R(100, 1)
    /\ nav_data[1].PF = Zero /\ nav_data[1].CPF = Zero
    /\ \A t \in Rows :
          (t > 1 /\ ~perf_cris_dates[t]) =>
              /\ nav_data[t].GAV = AccruedGAV(t)
              /\ nav_data[t].PF =
                    Mul(perf_fee,
                        Larger(Sub(nav_data[t].GAV, nav_data[t - 1].HWM), Zero))
              /\ nav_data[t].NAV = Sub(nav_data[t].GAV, nav_data[t].PF)
              /\ nav_data[t].HWM = nav_data[t - 1].HWM

\* gross returns 0, 0.10, -0.05 with no management fee, a performance fee
\* of 0.2 and a crystallization on the last date: GAV 110 and NAV 108 on the
\* second date, then GAV 104.5 less the fee 0.9 gives NAV = GAV = HWM = 103.6
C21_Witness ==
    /\ Len(nav_data) = 3
    /\ man_fee = Zero /\ perf_fee = R(1, 5)
    /\ nav_data[1].gross = Zero /\ nav_data[2].gross = R(1, 10)
    /\ nav_data[3].gross = R(-1, 20)
    /\ ~perf_cris_dates[2] /\ perf_cris_dates[3]
    /\ nav_data[2].GAV = R(110, 1) /\ nav_data[2].PF = R(2, 1)
    /\ nav_data[2].NAV = R(108, 1) /\ nav_data[2].HWM = R(100, 1)
    /\ nav_data[2].CPF = Zero
    /\ nav_data[3].PF = R(9, 10) /\ nav_data[3].CPF = R(9, 10)
    /\ nav_data[3].NAV = R(518, 5) /\ nav_data[3].GAV = R(518, 5)
    /\ nav_data[3].HWM = R(518, 5)

\* C22: on a crystallization date after the first the crystallized fee is
\* PF, HWM is the larger of NAV and the HWM of the date before, and the
\* stored GAV is the accrued GAV less the crystallized fee, which is NAV; on
\* every other date the crystallized fee is zero, HWM is the HWM of the date
\* before and GAV is the accrued GAV.
C22_Crystallization ==
    /\ nav_data[1].CPF = Zero /\ nav_data[1].HWM = R(100, 1)
    /\ \A t \in Rows :
          t > 1 =>
              IF perf_cris_dates[t]
              THEN /\ nav_data[t].CPF = nav_data[t].PF
                   /\ nav_data[t].HWM = Larger(nav_data[t].NAV, nav_data[t - 1].HWM)
                   /\ nav_data[t].GAV = Sub(AccruedGAV(t), nav_data[t].CPF)
                   /\ nav_data[t].GAV = nav_data[t].NAV
              ELSE /\ nav_data[t].CPF = Zero
                   /\ nav_data[t].HWM = nav_data[t - 1].HWM
                   /\ nav_data[t].GAV = AccruedGAV(t)

\* a gain of 10% crystallized on the second date: the fee 2 leaves GAV and
\* raises HWM to 108; on the third, ordinary, date nothing is crystallized
C22_Witness ==
    /\ Len(nav_data) = 3
    /\ man_fee = Zero /\ perf_fee = R(1, 5)
    /\ perf_cris_dates[2] /\ ~perf_cris_dates[3]
    /\ nav_data[2].gross = R(1, 10)
    /\ nav_data[2].CPF = R(2, 1) /\ nav_data[2].GAV = R(108, 1)
    /\ nav_data[2].HWM = R(108, 1)
    /\ nav_data[3].CPF = Zero /\ nav_data[3].HWM = R(108, 1)

\* the row of the second date had the first gross return been g
SecondRowFrom(g) ==
    NextRow(FirstRow(g), nav_data[2].gross, DaysElapsed(2), perf_cris_dates[2],
            man_fee, perf_fee)

\* C23: the returned series is 0 at the first date and NAV over the NAV of
\* the date before, less one, at every later date; the first row but for
\* its gross return, and the second row, are those of the same run with any
\* other first gross return, so no NAV depends on the first gross return.
C23_NetReturnOutput ==
    /\ \A g \in GrossReturns :
          /\ [nav_data[1] EXCEPT !.gross = g] = FirstRow(g)
          /\ Len(nav_data) >= 2 => nav_data[2] = SecondRowFrom(g)
    /\ pc = "done" =>
          /\ Len(net_return) = Len(nav_data)
          /\ net_return[1] = Zero
          /\ \A t \in Rows :
                t > 1 => net_return[t] =
                            Sub(Div(nav_data[t].NAV, nav_data[t - 1].NAV), One)

\* a first gross return of 10% and a second of -5%, no fees: the output is
\* 0, then -0.05
C23_Witness ==
    /\ pc = "done"
    /\ Len(nav_data) >= 2
    /\ man_fee = Zero /\ perf_fee = Zero
    /\ nav_data[1].gross = R(1, 10) /\ nav_data[2].gross = R(-1, 20)
    /\ net_return[1] = Zero /\ net_return[2] = R(-1, 20)

---------------------------------------------------------------------------
(* to_returns: the return converter (freq = None: no resampling) *)

ReturnTypes == {"RELATIVE", "LOG", "DIFFERENCE", "LEVEL", "LEVEL0"}

\* a value of return_type the converter does not recognise
OtherTypes == {"OTHER"}

PriceValues == {NaN, R(-2, 1), Zero, One, R(2, 1)}

\* what np.divide / np.log leave in the entries their where= mask excludes:
\* the output array is allocated uninitialised (no out= is given)
Uninitialised == {NaN, Zero, R(3, 1)}

SeqsUpTo(S, n) == UNION {[1..k -> S] : k \in 1..n}

\* fillna(method='ffill'): the last non-missing value at or before row t
RECURSIVE LastValid(_, _)
LastValid(p, t) ==
    IF t = 0 THEN NaN
    ELSE IF ~IsNaN(p[t]) THEN p[t]
    ELSE LastValid(p, t - 1)

FFill(p) == [t \in 1..Len(p) |-> LastValid(p, t)]

\* lines 430-452 with freq = None
PricesAtFreq(p, ffill_nans) == IF ffill_nans THEN FFill(p) ELSE p

\* Series.shift(1)
Shift1(p) == [t \in 1..Len(p) |-> IF t = 1 THEN NaN ELSE p[t - 1]]

\* lines 46-48: both operands of each logical_and are the current price
IndGood(p) ==
    [t \in 1..Len(p) |->
        /\ (~IsNaN(p[t]) /\ ~IsNaN(p[t]))
        /\ (Lt(Zero, p[t]) /\ Lt(Zero, p[t]))]

\* line 51: np.log(np.divide(prices, prices.shift(1)), where=ind_good)
LogReturns(p, garbage) ==
    [t \in 1..Len(p) |->
        IF IndGood(p)[t] THEN Ln(Div(p[t], Shift1(p)[t])) ELSE garbage[t]]

RelativeReturnsGross(p, garbage) ==
    [t \in 1..Len(p) |->
        IF IndGood(p)[t] THEN Div(p[t], Shift1(p)[t]) ELSE garbage[t]]

\* line 53: np.divide(prices, prices.shift(1), where=ind_good).add(-1.0)
RelativeReturns(p, garbage) ==
    [t \in 1..Len(p) |->
        Add(IF IndGood(p)[t] THEN Div(p[t], Shift1(p)[t]) ELSE garbage[t],
            R(-1, 1))]

\* line 56
DifferenceReturns(p) == [t \in 1..Len(p) |-> Sub(p[t], Shift1(p)[t])]

\* lines 492-497
set_zero_first(returns) == [returns EXCEPT ![1] = Zero]

\* lines 484-489
drop_first_row(returns) == Tail(returns)

PostProcessDropFirst(returns, is_first_zero, drop_first) ==
    IF drop_first THEN drop_first_row(returns)
    ELSE IF is_first_zero THEN set_zero_first(returns)
    ELSE returns

\* lines 66-69
PostProcess(returns, is_first_zero, drop_first) ==
    IF is_first_zero THEN set_zero_first(returns)
    ELSE IF drop_first THEN drop_first_row(returns)
    ELSE returns

Returned(v) == [status |-> "ok", value |-> v, warned |-> FALSE]
Raised(e, msg) == [status |-> "raise", error |-> e, message |-> msg]

\* lines 50-64: the dispatch on the return type
RawReturns(c, p, garbage) ==
    IF c.return_type = "LOG" \/ c.is_log_returns THEN Returned(LogReturns(p, garbage))
    ELSE IF c.return_type = "RELATIVE" THEN Returned(RelativeReturns(p, garbage))
    ELSE IF c.return_type = "DIFFERENCE" THEN Returned(DifferenceReturns(p))
    ELSE IF c.return_type = "LEVEL" THEN Returned(p)
    ELSE IF c.return_type = "LEVEL0" THEN Returned(Shift1(p))
    ELSE Raised("NotImplementedError", c.return_type)

\* lines 27-71
to_returns(c, garbage) ==
    LET p == PricesAtFreq(c.prices, c.ffill_nans)
        raw == RawReturns(c, p, garbage)
    IN IF raw.status = "raise" THEN raw
       ELSE Returned(PostProcess(raw.value, c.is_first_zero, c.drop_first))

\* the caller's prices after the call: with ffill_nans off and freq None the
\* local prices is the caller's object (lines 449-452), the LEVEL returns are
\* that object again (line 59), and set_zero_first writes into it (line 496)
CallerPricesAfter(c) ==
    IF /\ ~c.ffill_nans
       /\ c.return_type = "LEVEL" /\ ~c.is_log_returns
       /\ c.is_first_zero
    THEN set_zero_first(c.prices)
    ELSE c.prices

\* the values the excluded entries may hold: one free value per excluded row
GarbageFor(c) ==
    LET p == PricesAtFreq(c.prices, c.ffill_nans)
    IN {g \in [1..Len(p) -> Uninitialised] :
          \A t \in 1..Len(p) : IndGood(p)[t] => g[t] = NaN}

ToReturnsCalls ==
    [fn : {"to_returns"},
     prices : SeqsUpTo(PriceValues, MaxLen),
     is_log_returns : BOOLEAN,
     return_type : ReturnTypes \cup OtherTypes,
     ffill_nans : BOOLEAN,
     drop_first : BOOLEAN,
     is_first_zero : BOOLEAN]

FeeIdle ==
    /\ man_fee = Zero
    /\ perf_fee = Zero
    /\ perf_cris_dates = <<>>
    /\ nav_data = <<>>
    /\ net_return = <<>>

InitReturns ==
    /\ pc = "call"
    /\ call \in ToReturnsCalls
    /\ caller = [prices |-> call.prices]
    /\ result = NoResult
    /\ FeeIdle

ToReturnsCall ==
    /\ pc = "call"
    /\ call.fn = "to_returns"
    /\ \E g \in GarbageFor(call) : result' = to_returns(call, g)
    /\ caller' = [caller EXCEPT !.prices =
                     IF result'.status = "ok" THEN CallerPricesAfter(call) ELSE @]
    /\ pc' = "done"
    /\ UNCHANGED <<man_fee, perf_fee, perf_cris_dates, nav_data, net_return, call>>

NextReturns == ToReturnsCall

SpecReturns == InitReturns /\ [][NextReturns]_vars

---------------------------------------------------------------------------
(* Claims about to_returns *)

Valid(x) == ~IsNaN(x) /\ Lt(Zero, x)

ReturnsDone == pc = "done" /\ call.fn = "to_returns"

\* the row of the output that holds the return of price row t
OutRow(t) == IF call.drop_first /\ ~call.is_first_zero THEN t - 1 ELSE t

\* C4: for every return type, the return of a row after the first is missing
\* whenever the price of that row or of the row before, in the price table
\* after the fill step, is missing or not strictly positive.
C4_MaskedReturnsMissing ==
    (ReturnsDone /\ result.status = "ok") =>
        LET p == PricesAtFreq(call.prices, call.ffill_nans)
        IN \A t \in 2..Len(p) :
              (~Valid(p[t]) \/ ~Valid(p[t - 1])) => IsNaN(result.value[OutRow(t)])

\* C9: an unrecognised return type always fails with NotImplementedError
\* naming the value, whatever the other options are.
C9_UnknownTypeRaises ==
    (ReturnsDone /\ call.return_type \in OtherTypes) =>
        /\ result.status = "raise"
        /\ result.error = "NotImplementedError"
        /\ result.message = call.return_type

\* row t of the returns as computed from the resampled prices, before
\* post-processing, when the entry is v if the mask excludes it
ComputedRow(t, v) ==
    RawReturns(call, PricesAtFreq(call.prices, call.ffill_nans),
               [u \in 1..Len(call.prices) |-> v]).value[t]

\* row u of the output is row t of the returns as computed
IsComputedRow(u, t) == \E v \in Uninitialised : result.value[u] = ComputedRow(t, v)

\* C17: with is_first_zero and drop_first both set the first row of the
\* computed returns is set to zero and no row is dropped; with drop_first
\* alone the first row is removed; with neither the returns are left as
\* computed.
C17_ZeroFirstTakesPrecedence ==
    (ReturnsDone /\ result.status = "ok") =>
        IF call.is_first_zero /\ call.drop_first
        THEN /\ Len(result.value) = Len(call.prices)
             /\ result.value[1] = Zero
             /\ \A t \in 2..Len(call.prices) : IsComputedRow(t, t)
        ELSE IF call.drop_first
        THEN /\ Len(result.value) = Len(call.prices) - 1
             /\ \A t \in 2..Len(call.prices) : IsComputedRow(t - 1, t)
        ELSE IF ~call.is_first_zero
        THEN /\ Len(result.value) = Len(call.prices)
             /\ \A t \in 1..Len(call.prices) : IsComputedRow(t, t)
        ELSE TRUE

\* relative returns of three prices with both options: three rows come
\* back, the first is zero, the second is the return from 1 to 2
C17_Witness ==
    /\ ReturnsDone /\ result.status = "ok"
    /\ call.is_first_zero /\ call.drop_first
    /\ call.return_type = "RELATIVE" /\ ~call.is_log_returns
    /\ call.prices = <<One, R(2, 1), One>>
    /\ result.value = <<Zero, One, R(-1, 2)>>

\* C15: to_returns leaves the prices it was passed as they were, whatever
\* the return type and the options; create_nav_from_returns leaves its
\* returns as they were.
C15_InputsUnchanged ==
    /\ ReturnsDone => caller.prices = call.prices
    /\ (pc = "done" /\ call.fn = "create_nav_from_returns")
          => caller.returns = call.returns

---------------------------------------------------------------------------
(* The NAV reconstructors: to_zero_first_non_nan_returns, returns_to_nav,  *)
(* log_returns_to_nav, create_nav_from_returns (freq = None)               *)

ReturnValues == {NaN, R(-2, 1), R(-1, 2), Zero, One, PInf}

\* log returns: missing, zero, ln 2, ln 1/2 and infinite
LogReturnValues == {NaN, Zero, Ln(R(2, 1)), Ln(R(1, 2)), PInf}

\* init_period: None, an int, or a value that is not an int (a float)
InitPeriods == {None, <<"int", 0>>, <<"int", 1>>, <<"int", 2>>, <<"float", 2>>}

InitValues == {None, R(100, 1), R(1, 2)}
TerminalValues == {None, R(50, 1)}
NavLimits == {None, R(1, 10)}
FirstDates == {None, <<0>>, <<1>>}

\* the default of nav_limit, line 553: 10e-8
DefaultNavLimit == R(1, 10000000)

\* dfo.get_first_before_non_nan_index: the position of the first non-missing
\* value, 0 (before the first date) when every value is missing
RECURSIVE FirstNonNanFrom(_, _)
FirstNonNanFrom(x, t) ==
    IF t > Len(x) THEN 0
    ELSE IF ~IsNaN(x[t]) THEN t
    ELSE FirstNonNanFrom(x, t + 1)

get_first_before_non_nan_index(x) == FirstNonNanFrom(x, 1)

\* dfo.get_first_non_nan_values
get_first_non_nan_values(x) ==
    IF FirstNonNanFrom(x, 1) = 0 THEN NaN ELSE x[FirstNonNanFrom(x, 1)]

\* dfo.get_last_non_nan_values
get_last_non_nan_values(x) == LastValid(x, Len(x))

IsInt(init_period) == init_period # None /\ init_period[1] = "int"

ToZeroFirstRaising(returns, init_period) ==
    IF init_period # None /\ ~IsInt(init_period)
    THEN Raised("ValueError", "init_period must be integer")
    ELSE IF init_period = None THEN Returned(returns)
    ELSE IF init_period[2] = 1
         THEN LET i == get_first_before_non_nan_index(returns)
              IN Returned(IF i >= 1 THEN [returns EXCEPT ![i] = Zero] ELSE returns)
    ELSE Raised("ValueError", "init_period is not supported")

ToZeroFirstUntouched(returns, init_period) == Returned(returns)

\* lines 598-623
to_zero_first_non_nan_returns(returns, init_period) ==
    IF init_period # None /\ ~IsInt(init_period)
    THEN Raised("ValueError", "init_period must be integer")
    ELSE IF init_period = None THEN Returned(returns)
    ELSE IF init_period[2] = 1
         THEN LET i == get_first_before_non_nan_index(returns)
              IN Returned(IF i >= 1 THEN [returns EXCEPT ![i] = Zero] ELSE returns)
    ELSE [Returned(returns) EXCEPT !.warned = TRUE]

\* the running product of the non-missing entries up to row t
RECURSIVE ProdUpTo(_, _)
ProdUpTo(x, t) ==
    IF t = 0 THEN One
    ELSE IF IsNaN(x[t]) THEN ProdUpTo(x, t - 1)
    ELSE Mul(ProdUpTo(x, t - 1), x[t])

\* cumprod(skipna=True): a missing entry stays missing and is skipped
CumProd(x) == [t \in 1..Len(x) |-> IF IsNaN(x[t]) THEN NaN ELSE ProdUpTo(x, t)]

RECURSIVE SumUpTo(_, _)
SumUpTo(x, t) ==
    IF t = 0 THEN Zero
    ELSE IF IsNaN(x[t]) THEN SumUpTo(x, t - 1)
    ELSE Add(SumUpTo(x, t - 1), x[t])

\* cumsum(skipna=True)
CumSum(x) == [t \in 1..Len(x) |-> IF IsNaN(x[t]) THEN NaN ELSE SumUpTo(x, t)]

Scale(x, k) == [t \in 1..Len(x) |-> Mul(x[t], k)]

CompoundAdditive(returns, constant_trade_level) ==
    [t \in 1..Len(returns) |-> Add(CumSum(returns)[t], One)]

\* lines 403-409
Compound(returns, constant_trade_level) ==
    IF constant_trade_level
    THEN [t \in 1..Len(returns) |-> Add(CumSum(returns)[t], One)]
    ELSE CumProd([t \in 1..Len(returns) |-> Add(returns[t], One)])

\* lines 411-416
Anchor(nav, terminal_value, init_value) ==
    IF terminal_value # None
    THEN Scale(nav, Div(terminal_value, get_last_non_nan_values(nav)))
    ELSE IF init_value # None
    THEN Scale(nav, Div(init_value, get_first_non_nan_values(nav)))
    ELSE nav

\* lines 389-421
returns_to_nav(c) ==
    LET zeroed == IF c.init_period # None
                  THEN to_zero_first_non_nan_returns(c.returns, c.init_period)
                  ELSE Returned(c.returns)
    IN IF zeroed.status = "raise" THEN zeroed
       ELSE [zeroed EXCEPT !.value =
                Anchor(Compound(zeroed.value, c.constant_trade_level),
                       c.terminal_value, c.init_value)]

\* lines 469-472
LogAnchor(nav, terminal_value, init_value) ==
    IF terminal_value # None
    THEN Scale(nav, Div(terminal_value, nav[Len(nav)]))
    ELSE IF init_value # None
    THEN [t \in 1..Len(nav) |->
             Div(nav[t], Div(get_first_non_nan_values(nav), init_value))]
    ELSE nav

\* lines 455-474: np.exp(log_returns.cumsum(skipna=True)); the exponential
\* of a running sum of logarithms is the running product of their arguments
log_returns_to_nav(c) ==
    LET zeroed == IF c.init_period # None
                  THEN to_zero_first_non_nan_returns(c.returns, c.init_period)
                  ELSE Returned(c.returns)
    IN IF zeroed.status = "raise" THEN zeroed
       ELSE [zeroed EXCEPT !.value =
                LogAnchor(CumProd([t \in 1..Len(zeroed.value) |-> Exp(zeroed.value[t])]),
                          c.terminal_value, c.init_value)]

\* lines 561-574: the zero return of first_date goes in front
PrependFirstDate(idx, val, first_date) ==
    IF first_date # None
    THEN [idx |-> <<first_date[1]>> \o idx, val |-> <<Zero>> \o val]
    ELSE [idx |-> idx, val |-> val]

KeptRowsLast(idx) ==
    {t \in 1..Len(idx) : \A u \in (t + 1)..Len(idx) : idx[u] # idx[t]}

\* lines 576-577: the rows whose date did not occur before (keep='first')
KeptRows(idx) == {t \in 1..Len(idx) : \A u \in 1..(t - 1) : idx[u] # idx[t]}

RECURSIVE SelectRows(_, _, _)
SelectRows(x, keep, t) ==
    IF t > Len(x) THEN <<>>
    ELSE (IF t \in keep THEN <<x[t]>> ELSE <<>>) \o SelectRows(x, keep, t + 1)

DropDuplicates(s) ==
    [idx |-> SelectRows(s.idx, KeptRows(s.idx), 1),
     val |-> SelectRows(s.val, KeptRows(s.idx), 1)]

\* lines 580-581: +-inf to nan, then nan to zero
Cleaned(val) ==
    [t \in 1..Len(val) |-> IF IsInf(val[t]) \/ IsNaN(val[t]) THEN Zero ELSE val[t]]

ClipLowerOff(nav, nav_limit) == nav

\* lines 585-586: nav.clip(lower=nav_limit)
ClipLower(nav, nav_limit) ==
    IF nav_limit = None THEN nav
    ELSE [t \in 1..Len(nav) |->
             IF IsNaN(nav[t]) THEN NaN
             ELSE IF Lt(nav[t], nav_limit) THEN nav_limit ELSE nav[t]]

\* lines 588-593: the initial value is looked at first
CreateAnchor(nav, init_value, terminal_value) ==
    IF init_value # None THEN Scale(nav, init_value)
    ELSE IF terminal_value # None
    THEN Scale(nav, Div(terminal_value, nav[Len(nav)]))
    ELSE nav

\* line 592: nav.iloc[-1].values exists for a row of a DataFrame; the last
\* value of a Series is a float, which has no attribute values
TerminalRatioFails(c) ==
    c.shape = "Series" /\ c.init_value = None /\ c.terminal_value # None

\* lines 549-595; the returns are dated 1, 2, ...; a DataFrame is modelled
\* by one of its columns
create_nav_from_returns(c) ==
    LET dated == DropDuplicates(
                    PrependFirstDate([t \in 1..Len(c.returns) |-> t], c.returns,
                                     c.first_date))
        unit == CumProd([t \in 1..Len(dated.val) |-> Add(Cleaned(dated.val)[t], One)])
        nav == CreateAnchor(ClipLower(unit, c.nav_limit), c.init_value,
                            c.terminal_value)
    IN IF TerminalRatioFails(c)
       THEN Raised("AttributeError", "values")
       ELSE [status |-> "ok", value |-> nav, index |-> dated.idx, warned |-> FALSE]

ToZeroFirstCalls ==
    [fn : {"to_zero_first_non_nan_returns"},
     returns : SeqsUpTo(ReturnValues, MaxLen),
     init_period : InitPeriods]

ReturnsToNavCalls ==
    [fn : {"returns_to_nav"},
     returns : SeqsUpTo(ReturnValues, MaxLen),
     init_period : InitPeriods,
     terminal_value : TerminalValues,
     init_value : InitValues,
     constant_trade_level : BOOLEAN]

LogReturnsToNavCalls ==
    [fn : {"log_returns_to_nav"},
     returns : SeqsUpTo(LogReturnValues, MaxLen),
     init_period : InitPeriods,
     terminal_value : TerminalValues,
     init_value : InitValues]

CreateNavCalls ==
    [fn : {"create_nav_from_returns"},
     shape : {"Series", "DataFrame"},
     returns : SeqsUpTo(ReturnValues, MaxLen),
     init_value : InitValues,
     terminal_value : TerminalValues,
     first_date : FirstDates,
     nav_limit : NavLimits]

InitNav ==
    /\ pc = "call"
    /\ call \in ToZeroFirstCalls \cup ReturnsToNavCalls \cup LogReturnsToNavCalls
                \cup CreateNavCalls
    /\ caller = [returns |-> call.returns]
    /\ result = NoResult
    /\ FeeIdle

ToZeroFirstCall ==
    /\ pc = "call"
    /\ call.fn = "to_zero_first_non_nan_returns"
    /\ result' = to_zero_first_non_nan_returns(call.returns, call.init_period)
    /\ pc' = "done"
    /\ UNCHANGED <<man_fee, perf_fee, perf_cris_dates, nav_data, net_return, call,
                   caller>>

ReturnsToNavCall ==
    /\ pc = "call"
    /\ call.fn = "returns_to_nav"
    /\ result' = returns_to_nav(call)
    /\ pc' = "done"
    /\ UNCHANGED <<man_fee, perf_fee, perf_cris_dates, nav_data, net_return, call,
                   caller>>

LogReturnsToNavCall ==
    /\ pc = "call"
    /\ call.fn = "log_returns_to_nav"
    /\ result' = log_returns_to_nav(call)
    /\ pc' = "done"
    /\ UNCHANGED <<man_fee, perf_fee, perf_cris_dates, nav_data, net_return, call,
                   caller>>

CreateNavCall ==
    /\ pc = "call"
    /\ call.fn = "create_nav_from_returns"
    /\ result' = create_nav_from_returns(call)
    /\ pc' = "done"
    /\ UNCHANGED <<man_fee, perf_fee, perf_cris_dates, nav_data, net_return, call,
                   caller>>

NextNav == ToZeroFirstCall \/ ReturnsToNavCall \/ LogReturnsToNavCall \/ CreateNavCall

SpecNav == InitNav /\ [][NextNav]_vars

---------------------------------------------------------------------------
(* Claims about the NAV reconstructors *)

NavDone(fns) == pc = "done" /\ call.fn \in fns

AllAtLeast(x, floor) == \A t \in 1..Len(x) : IsNaN(x[t]) \/ Le(floor, x[t])

NavFunction(c) ==
    IF c.fn = "returns_to_nav" THEN returns_to_nav(c)
    ELSE IF c.fn = "log_returns_to_nav" THEN log_returns_to_nav(c)
    ELSE create_nav_from_returns(c)

\* C8: in returns_to_nav, log_returns_to_nav and create_nav_from_returns,
\* when a terminal and an initial value are both given only the terminal
\* anchor is applied: the result is that of the call without the initial
\* value.
C8_TerminalTakesPrecedence ==
    (/\ NavDone({"returns_to_nav", "log_returns_to_nav", "create_nav_from_returns"})
     /\ call.terminal_value # None /\ call.init_value # None) =>
        result = NavFunction([call EXCEPT !.init_value = None])

\* the returns with every infinite value replaced by a missing one
InfToNan(returns) ==
    [t \in 1..Len(returns) |-> IF IsInf(returns[t]) THEN NaN ELSE returns[t]]

\* C14: returns_to_nav, log_returns_to_nav and create_nav_from_returns
\* replace an infinite return by a missing one before they accumulate: the
\* NAV is the NAV of the returns without their infinite values, so no value
\* of a later date is infinite or missing because of them.
C14_InfiniteReturnNeutralised ==
    NavDone({"returns_to_nav", "log_returns_to_nav", "create_nav_from_returns"}) =>
        result = NavFunction([call EXCEPT !.returns = InfToNan(@)])

Unsupported(init_period) == init_period # None /\ init_period # <<"int", 1>>

PassedThrough ==
    /\ result.status = "ok"
    /\ result.warned
    /\ result.value = IF call.fn = "returns_to_nav"
                      THEN returns_to_nav([call EXCEPT !.init_period = None]).value
                      ELSE call.returns

\* C10 as claimed: for every init_period other than 1 and None the call
\* does not raise, warns, and leaves the returns as they were.
C10_Original ==
    (/\ NavDone({"to_zero_first_non_nan_returns", "returns_to_nav"})
     /\ Unsupported(call.init_period)) => PassedThrough

\* C10 amended: for every integer init_period other than 1 the call does
\* not raise, warns and leaves the returns as they were; an init_period that
\* is not an integer raises ValueError.
C10_IntegerInitPeriodWarns ==
    (/\ NavDone({"to_zero_first_non_nan_returns", "returns_to_nav"})
     /\ Unsupported(call.init_period)) =>
        IF IsInt(call.init_period) THEN PassedThrough
        ELSE result.status = "raise" /\ result.error = "ValueError"

\* init_period = 2 on returns whose first entry is a non-zero return: the
\* entry is still there after the call, and the warning was given
C10_Witness ==
    /\ NavDone({"to_zero_first_non_nan_returns"})
    /\ call.init_period = <<"int", 2>>
    /\ call.returns[1] = One
    /\ result.status = "ok" /\ result.warned
    /\ result.value[1] = One

\* the date of the first non-missing return, 0 when every return is missing
FirstPresent(x) ==
    IF \A t \in 1..Len(x) : IsNaN(x[t]) THEN 0
    ELSE CHOOSE t \in 1..Len(x) :
             ~IsNaN(x[t]) /\ \A u \in 1..(t - 1) : IsNaN(x[u])

\* the last date before t with a non-missing return
PrevPresent(x, t) ==
    CHOOSE u \in 1..(t - 1) :
        ~IsNaN(x[u]) /\ \A w \in (u + 1)..(t - 1) : IsNaN(x[w])

\* the level a series starts from: init_value, 1 when there is none
StartLevel == IF call.init_value = None THEN One ELSE call.init_value

\* C24: with init_period = 1 the first non-missing return is replaced by
\* zero and nothing else is changed, a series that is all missing included;
\* the NAV of returns_to_nav (no terminal value) at the date of the first
\* non-missing return is the starting level, 1 when there is no init_value,
\* and every later non-missing return compounds the NAV of the non-missing
\* date before it, that return itself and nothing of the first one.
C24_FirstReturnZeroed ==
    /\ (NavDone({"to_zero_first_non_nan_returns"})
            /\ call.init_period = <<"int", 1>>) =>
          /\ result.status = "ok" /\ ~result.warned
          /\ Len(result.value) = Len(call.returns)
          /\ \A t \in 1..Len(call.returns) :
                result.value[t] = IF t = FirstPresent(call.returns) THEN Zero
                                  ELSE call.returns[t]
    /\ (NavDone({"returns_to_nav"}) /\ call.init_period = <<"int", 1>>
            /\ call.terminal_value = None) =>
          LET x == call.returns
              i == FirstPresent(x)
          IN /\ result.status = "ok"
             /\ Len(result.value) = Len(x)
             /\ \A t \in 1..Len(x) :
                   IF i = 0 \/ t < i THEN IsNaN(result.value[t])
                   ELSE IF t = i THEN result.value[t] = StartLevel
                   ELSE ~IsNaN(x[t]) =>
                          result.value[t] =
                             IF call.constant_trade_level
                             THEN Add(result.value[PrevPresent(x, t)],
                                      Mul(StartLevel, x[t]))
                             ELSE Mul(result.value[PrevPresent(x, t)],
                                      Add(One, x[t]))

\* a missing return, then 100%, then -50%: the NAV is missing, 1, 1/2; the
\* 100% is not compounded
C24_Witness ==
    /\ NavDone({"returns_to_nav"})
    /\ call.init_period = <<"int", 1>>
    /\ call.terminal_value = None /\ call.init_value = None
    /\ ~call.constant_trade_level
    /\ call.returns = <<NaN, One, R(-1, 2)>>
    /\ result.value = <<NaN, One, R(1, 2)>>

\* the product of 1 + return over the dates up to t, a missing return
\* counted as a return of zero
RECURSIVE HeldProduct(_, _)
HeldProduct(x, t) ==
    IF t = 0 THEN One
    ELSE Mul(HeldProduct(x, t - 1), IF IsNaN(x[t]) THEN One ELSE Add(One, x[t]))

\* 1 plus the sum of the non-missing returns over the dates up to t
RECURSIVE OnePlusSum(_, _)
OnePlusSum(x, t) ==
    IF t = 0 THEN One
    ELSE Add(OnePlusSum(x, t - 1), IF IsNaN(x[t]) THEN Zero ELSE x[t])

\* C25: returns_to_nav without init_period and anchors, from the date of
\* the first non-missing return on: in default mode the NAV of every date
\* is the product of 1 + return up to the date with every missing return
\* counted as zero, so the NAV of a date with a missing return is the NAV
\* of the date before; in constant-trade-level mode the NAV of a date with
\* a return is 1 plus the sum of the returns up to it.
C25_MissingReturnHeldFlat ==
    (/\ NavDone({"returns_to_nav"}) /\ call.init_period = None
     /\ call.terminal_value = None /\ call.init_value = None) =>
        /\ result.status = "ok"
        /\ \A t \in 1..Len(call.returns) :
              (FirstPresent(call.returns) # 0 /\ t >= FirstPresent(call.returns)) =>
                  IF call.constant_trade_level
                  THEN ~IsNaN(call.returns[t]) =>
                          result.value[t] = OnePlusSum(call.returns, t)
                  ELSE /\ result.value[t] = HeldProduct(call.returns, t)
                       /\ IsNaN(call.returns[t]) =>
                              result.value[t] = result.value[t - 1]

\* the date of the returns that first_date falls on, 0 when on none
Occurs(c) ==
    IF c.first_date # None /\ c.first_date[1] \in 1..Len(c.returns)
    THEN c.first_date[1] ELSE 0

\* C26: create_nav_from_returns with a first_date and an init_value starts
\* with a row dated first_date whose value is init_value, no date occurs
\* twice, and when first_date is a date of the returns the result is the one
\* of the same call with any other return at that date.
C26_FirstDateAnchored ==
    (/\ NavDone({"create_nav_from_returns"})
     /\ call.first_date # None /\ call.init_value # None) =>
        /\ result.status = "ok"
        /\ result.index[1] = call.first_date[1]
        /\ result.value[1] = call.init_value
        /\ Len(result.value) = Len(result.index)
        /\ \A t, u \in 1..Len(result.index) :
              result.index[t] = result.index[u] => t = u
        /\ Occurs(call) # 0 =>
              \A v \in ReturnValues :
                 result = create_nav_from_returns(
                             [call EXCEPT !.returns[Occurs(call)] = v])

\* first_date is the first date of the returns, whose return is 100%: the
\* NAV starts at 100 on that date and the 100% is not compounded
C26_Witness ==
    /\ NavDone({"create_nav_from_returns"})
    /\ call.first_date = <<1>> /\ call.init_value = R(100, 1)
    /\ call.returns = <<One, R(-1, 2)>>
    /\ result.index = <<1, 2>>
    /\ result.value = <<R(100, 1), R(50, 1)>>

---------------------------------------------------------------------------
(* The round trip: to_returns, then returns_to_nav anchored at the first price *)

PositivePrices == {R(1, 2), One, R(2, 1)}

RoundTripCalls ==
    [fn : {"to_returns"},
     prices : SeqsUpTo(PositivePrices, MaxLen),
     is_log_returns : {FALSE},
     return_type : {"RELATIVE"},
     ffill_nans : BOOLEAN,
     drop_first : BOOLEAN,
     is_first_zero : BOOLEAN]

InitRoundTrip ==
    /\ pc = "call"
    /\ call \in RoundTripCalls
    /\ caller = [prices |-> call.prices, is_first_zero |-> call.is_first_zero]
    /\ result = NoResult
    /\ FeeIdle

\* the caller hands the returns to returns_to_nav, init_value = first price
PassReturnsToNav ==
    /\ pc = "done"
    /\ call.fn = "to_returns"
    /\ result.status = "ok"
    /\ \E ip \in {None, <<"int", 1>>} :
          call' = [fn |-> "returns_to_nav",
                   returns |-> result.value,
                   init_period |-> ip,
                   terminal_value |-> None,
                   init_value |-> caller.prices[1],
                   constant_trade_level |-> FALSE]
    /\ result' = NoResult
    /\ pc' = "call"
    /\ UNCHANGED <<man_fee, perf_fee, perf_cris_dates, nav_data, net_return, caller>>

NextRoundTrip == ToReturnsCall \/ PassReturnsToNav \/ ReturnsToNavCall

SpecRoundTrip == InitRoundTrip /\ [][NextRoundTrip]_vars

RoundTripDone == pc = "done" /\ call.fn = "returns_to_nav" /\ result.status = "ok"

\* C7 as claimed: for prices with no missing value, relative returns
\* compounded by returns_to_nav with init_value = first price give back the
\* price of every date.
C7_Original == RoundTripDone => result.value = caller.prices

\* C7 amended: the round trip gives back the price of every date when the
\* returns were computed with is_first_zero set.
C7_RoundTripFirstZero ==
    (RoundTripDone /\ caller.is_first_zero) => result.value = caller.prices

\* three different prices went through the round trip and came back
C7_Witness ==
    /\ RoundTripDone /\ caller.is_first_zero
    /\ Len(caller.prices) = 3
    /\ caller.prices[1] # caller.prices[2] /\ caller.prices[2] # caller.prices[3]
    /\ caller.prices[1] # One
    /\ result.value = caller.prices

---------------------------------------------------------------------------
(* Relative returns of a price series and the NAV rebuilt from them *)

\* the prices 100, 110, 99 of the scenario, and a price of zero
ScenarioPrices == {Zero, R(99, 1), R(100, 1), R(110, 1)}

ScenarioCalls ==
    [fn : {"to_returns"},
     prices : SeqsUpTo(ScenarioPrices, MaxLen),
     is_log_returns : {FALSE},
     return_type : {"RELATIVE"},
     ffill_nans : BOOLEAN,
     drop_first : BOOLEAN,
     is_first_zero : BOOLEAN]

InitScenario ==
    /\ pc = "call"
    /\ call \in ScenarioCalls
    /\ caller = [prices |-> call.prices, is_first_zero |-> call.is_first_zero]
    /\ result = NoResult
    /\ FeeIdle

SpecScenario == InitScenario /\ [][NextRoundTrip]_vars

\* to_returns has returned the relative returns of the caller's prices, and
\* the first entry, the later entries and the rebuilt NAV are as claimed
RelativeAsClaimed ==
    /\ (ReturnsDone /\ result.status = "ok") =>
          /\ call.is_first_zero => result.value[1] = Zero
          /\ (~call.is_first_zero /\ ~call.drop_first) => IsNaN(result.value[1])
          /\ \A t \in 2..Len(call.prices) :
                result.value[OutRow(t)] =
                    Sub(Div(call.prices[t], call.prices[t - 1]), One)
    /\ (RoundTripDone /\ caller.is_first_zero) => result.value = caller.prices

NoneMissing(p) == \A t \in 1..Len(p) : ~IsNaN(p[t])

AllPositive(p) == \A t \in 1..Len(p) : Valid(p[t])

\* C18 as claimed: for the relative return type over prices without missing
\* values the first entry is missing, or zero with is_first_zero, the entry
\* of every later row t is p[t] / p[t-1] - 1, and the NAV rebuilt from the
\* zero-first returns with init_value the first price is the prices.
C18_Original == NoneMissing(caller.prices) => RelativeAsClaimed

\* C18 amended: the same over prices that are strictly positive.
C18_PositivePrices == AllPositive(caller.prices) => RelativeAsClaimed

\* the prices 100, 110, 99: the zero-first returns 0, 0.10, -0.10 went into
\* returns_to_nav with init_value 100 and the NAV is 100, 110, 99
C18_Witness ==
    /\ RoundTripDone /\ caller.is_first_zero
    /\ caller.prices = <<R(100, 1), R(110, 1), R(99, 1)>>
    /\ call.returns = <<Zero, R(1, 10), R(-1, 10)>>
    /\ call.init_value = R(100, 1)
    /\ result.value = <<R(100, 1), R(110, 1), R(99, 1)>>

---------------------------------------------------------------------------
(* to_portfolio_returns: the portfolio aggregator *)

Instruments == {"x1", "x2"}

PortfolioReturnValues == {NaN, R(1, 20), R(-1, 10)}
WeightValues == {NaN, One, R(1, 2)}

\* a table: one row per date, each row a value per instrument
Tables(S) == [1..MaxPortRows -> [Instruments -> S]]

\* line 509: weights.shift(1)
ShiftRows(w) ==
    [t \in 1..Len(w) |-> IF t = 1 THEN [i \in Instruments |-> NaN] ELSE w[t - 1]]

NoShiftRows(w) == w

\* line 509: the weights applied to the returns of a row
AppliedWeights(w) == ShiftRows(w)

\* line 510: returns.multiply(weights_1)
WeightedReturns(returns, weights_1) ==
    [t \in 1..Len(returns) |->
        [i \in Instruments |-> Mul(returns[t][i], weights_1[t][i])]]

\* np.nansum over a row: missing entries count as zero
RECURSIVE NanSumOver(_, _)
NanSumOver(row, todo) ==
    IF todo = {} THEN Zero
    ELSE LET i == CHOOSE j \in todo : TRUE
         IN Add(IF IsNaN(row[i]) THEN Zero ELSE row[i], NanSumOver(row, todo \ {i}))

\* line 511
NanSum(row) == NanSumOver(row, Instruments)

\* line 512
IsAllNan(row) == \A i \in Instruments : IsNaN(row[i])

RowReturnNanAsZero(row) == NanSum(row)

\* line 513: np.where(is_all_nan, np.nan, pnl)
RowReturn(row) == IF IsAllNan(row) THEN NaN ELSE NanSum(row)

\* lines 500-517
to_portfolio_returns(c) ==
    LET portfolio_pnl == WeightedReturns(c.returns, AppliedWeights(c.weights))
    IN Returned([t \in 1..Len(c.returns) |-> RowReturn(portfolio_pnl[t])])

\* line 529: np.nansum(returns.to_numpy(), axis=1)
AggPnl(returns) == [t \in 1..Len(returns) |-> NanSum(returns[t])]

\* lines 520-531 (freq = None)
portfolio_returns_to_nav(c) ==
    returns_to_nav([fn |-> "returns_to_nav",
                    returns |-> AggPnl(c.returns),
                    init_period |-> c.init_period,
                    terminal_value |-> None,
                    init_value |-> c.init_value,
                    constant_trade_level |-> FALSE])

\* lines 534-546
compute_grouped_nav(c) == portfolio_returns_to_nav(c)

PortfolioCalls ==
    [fn : {"to_portfolio_returns"},
     weights : Tables(WeightValues),
     returns : Tables(PortfolioReturnValues)]

\* init_period and init_value: the defaults of the two functions (1 and
\* None, None and 1.0) and an initial value of 100
PortfolioNavCalls ==
    [fn : {"portfolio_returns_to_nav", "compute_grouped_nav"},
     returns : Tables(PortfolioReturnValues),
     init_period : {None, <<"int", 1>>},
     init_value : {None, One, R(100, 1)}]

InitPortfolio ==
    /\ pc = "call"
    /\ call \in PortfolioCalls \cup PortfolioNavCalls
    /\ caller = IF call.fn = "to_portfolio_returns"
                THEN [weights |-> call.weights, returns |-> call.returns]
                ELSE [returns |-> call.returns]
    /\ result = NoResult
    /\ FeeIdle

ToPortfolioReturnsCall ==
    /\ pc = "call"
    /\ call.fn = "to_portfolio_returns"
    /\ result' = to_portfolio_returns(call)
    /\ pc' = "done"
    /\ UNCHANGED <<man_fee, perf_fee, perf_cris_dates, nav_data, net_return, call,
                   caller>>

PortfolioReturnsToNavCall ==
    /\ pc = "call"
    /\ call.fn = "portfolio_returns_to_nav"
    /\ result' = portfolio_returns_to_nav(call)
    /\ pc' = "done"
    /\ UNCHANGED <<man_fee, perf_fee, perf_cris_dates, nav_data, net_return, call,
                   caller>>

ComputeGroupedNavCall ==
    /\ pc = "call"
    /\ call.fn = "compute_grouped_nav"
    /\ result' = compute_grouped_nav(call)
    /\ pc' = "done"
    /\ UNCHANGED <<man_fee, perf_fee, perf_cris_dates, nav_data, net_return, call,
                   caller>>

NextPortfolio ==
    ToPortfolioReturnsCall \/ PortfolioReturnsToNavCall \/ ComputeGroupedNavCall

SpecPortfolio == InitPortfolio /\ [][NextPortfolio]_vars

---------------------------------------------------------------------------
(* Claims about to_portfolio_returns *)

PortfolioDone == pc = "done" /\ call.fn = "to_portfolio_returns"

\* the weighted return of instrument i at row t: return times lagged weight
Weighted(t, i) ==
    Mul(call.returns[t][i],
        IF t = 1 THEN NaN ELSE call.weights[t - 1][i])

Present(t) == {i \in Instruments : ~IsNaN(Weighted(t, i))}

RECURSIVE SumOfWeighted(_, _)
SumOfWeighted(t, todo) ==
    IF todo = {} THEN Zero
    ELSE LET i == CHOOSE j \in todo : TRUE
         IN Add(Weighted(t, i), SumOfWeighted(t, todo \ {i}))

\* C5: a row in which every weighted return is missing gives a missing
\* portfolio return; a row with at least one gives the sum over the
\* non-missing weighted returns only.
C5_MissingOnlyWhenAllMissing ==
    PortfolioDone =>
        \A t \in 1..Len(call.returns) :
            IF Present(t) = {} THEN IsNaN(result.value[t])
            ELSE result.value[t] = SumOfWeighted(t, Present(t))

\* row 2: return 0.05 with applied weight 1.0, the other instrument missing,
\* gives 0.05; row 1, where no weight is applied yet, is missing
C5_Witness ==
    /\ PortfolioDone
    /\ call.returns[2]["x1"] = R(1, 20) /\ call.weights[1]["x1"] = One
    /\ IsNaN(call.returns[2]["x2"])
    /\ result.value[2] = R(1, 20)
    /\ IsNaN(result.value[1])

\* the call with nothing left but the returns of row t and the weights of
\* row t-1: every other row of both tables is blanked
OnlyRows(t) ==
    [call EXCEPT
        !.weights = [u \in 1..Len(call.weights) |->
                        IF u = t - 1 THEN call.weights[u]
                        ELSE [i \in Instruments |-> NaN]],
        !.returns = [u \in 1..Len(call.returns) |->
                        IF u = t THEN call.returns[u]
                        ELSE [i \in Instruments |-> NaN]]]

\* C16: the portfolio return of row t is made of the returns of row t and
\* the weights of row t-1 only: it is the portfolio return of row t of the
\* call in which every other row is blanked, so two calls that differ in the
\* weights of row t or of later rows give the same portfolio return at t.
C16_WeightsLagged ==
    PortfolioDone =>
        \A t \in 1..Len(call.returns) :
            result.value[t] = to_portfolio_returns(OnlyRows(t)).value[t]

\* the weights go from (1, 1/2) to (1/2, 1): the returns 0.05 and -0.10 of
\* row 2 are earned on the weights of row 1 and cancel
C16_Witness ==
    /\ PortfolioDone
    /\ call.weights[1]["x1"] = One /\ call.weights[2]["x1"] = R(1, 2)
    /\ call.returns[2]["x1"] = R(1, 20) /\ call.returns[2]["x2"] = R(-1, 10)
    /\ call.weights[1]["x2"] = R(1, 2) /\ call.weights[2]["x2"] = One
    /\ result.value[2] = Zero

\* C19: in portfolio_returns_to_nav and compute_grouped_nav a row in which
\* every instrument return is missing is aggregated to a missing return,
\* not to a return of zero: the NAV of that row is missing.
C19_AllMissingRowMissing ==
    (/\ pc = "done"
     /\ call.fn \in {"portfolio_returns_to_nav", "compute_grouped_nav"}
     /\ result.status = "ok") =>
        \A t \in 1..Len(call.returns) :
            IsAllNan(call.returns[t]) => IsNaN(result.value[t])

---------------------------------------------------------------------------
(* compute_num_years, compute_total_return, compute_pa_return               *)
(*                                                                         *)
(* A price object is a Series (one column) or a DataFrame (two columns)    *)
(* over a DatetimeIndex.  Timestamps are counted in half days, so that two *)
(* timestamps of the same day differ.  <<n, d, p, q, 2>> is the symbolic   *)
(* value (n/d)^(p/q) - 1 of a power that is not rational.                  *)

TotalPrices == {NaN, One, R(16, 1)}

\* day 0 at 00:00 and at 12:00, day 365, day 1461
Timestamps == {0, 1, 730, 2922}

\* the timestamps of an index are distinct; they need not be increasing
Indexes(n) == {s \in [1..n -> Timestamps] : \A i, j \in 1..n : s[i] = s[j] => i = j}

PriceObjectsOf(n) ==
    [shape : {"Series"}, index : Indexes(n),
     columns : [1..1 -> [1..n -> TotalPrices]]]
    \cup
    [shape : {"DataFrame"}, index : Indexes(n),
     columns : [1..2 -> [1..n -> TotalPrices]]]

PriceObjects == UNION {PriceObjectsOf(n) : n \in 1..MaxLen}

\* qis.utils.dates.CALENDAR_DAYS_PER_YEAR_SHARPE: 365.25
CALENDAR_DAYS_PER_YEAR_SHARPE == R(1461, 4)

\* line 24: Timedelta.days, the whole days of the difference, rounded down
ElapsedDays(index) == (index[Len(index)] - index[1]) \div 2

\* lines 21-24
compute_num_years(index) ==
    Div(R(ElapsedDays(index), 1), CALENDAR_DAYS_PER_YEAR_SHARPE)

NCols(prices) == Len(prices.columns)

\* a float for a Series, an array with an entry per column for a DataFrame
AsShape(prices, v) == IF prices.shape = "Series" THEN v[1] ELSE v

\* lines 93-95, 126: np.full(len(prices.columns), np.nan) or np.nan
AllNan(prices) == [k \in 1..NCols(prices) |-> NaN]

\* lines 100-104, 109-113: the first row, or the first non-missing price of
\* every column when a price of the first row is missing
Price0(prices) ==
    LET first == [k \in 1..NCols(prices) |-> prices.columns[k][1]]
    IN IF \E k \in 1..NCols(prices) : IsNaN(first[k])
       THEN [k \in 1..NCols(prices) |-> get_first_non_nan_values(prices.columns[k])]
       ELSE first

\* lines 106, 115: the last row
PriceEnd(prices) ==
    [k \in 1..NCols(prices) |-> prices.columns[k][Len(prices.index)]]

\* lines 103-104, 112-113, 124-125: what the call prints
Diagnostics(prices) ==
    (IF \E k \in 1..NCols(prices) : IsNaN(prices.columns[k][1])
     THEN {"detected nan price"} ELSE {})
    \cup
    (IF Lt(Zero, compute_num_years(prices.index))
     THEN {} ELSE {"total return has incosistent dates"})

Computed(v, printed) ==
    [status |-> "ok", value |-> v, warned |-> FALSE, printed |-> printed]

SpanReturnUnguarded(prices, price_0, price_end) ==
    [k \in 1..NCols(prices) |-> Sub(Div(price_end[k], price_0[k]), One)]

\* lines 120-126
SpanReturn(prices, price_0, price_end) ==
    IF Lt(Zero, compute_num_years(prices.index))
    THEN [k \in 1..NCols(prices) |-> Sub(Div(price_end[k], price_0[k]), One)]
    ELSE AllNan(prices)

\* lines 86-127
compute_total_return(prices) ==
    IF Len(prices.index) = 1
    THEN Computed(AsShape(prices, AllNan(prices)), {})
    ELSE Computed(AsShape(prices, SpanReturn(prices, Price0(prices), PriceEnd(prices))),
                  Diagnostics(prices))

\* k^q, or 1001 when it is above 1000
RECURSIVE PowCapped(_, _)
PowCapped(k, q) ==
    IF q = 0 THEN 1
    ELSE LET h == PowCapped(k, q \div 2)
             sq == IF h > 1000 THEN 1001 ELSE h * h
             full == IF q % 2 = 0 \/ sq > 1000 THEN sq ELSE sq * k
         IN IF full > 1000 THEN 1001 ELSE full

\* the integer whose q-th power is n, or -1
IntRoot(n, q) ==
    IF n <= 1000 /\ \E k \in 0..n : PowCapped(k, q) = n
    THEN CHOOSE k \in 0..n : PowCapped(k, q) = n
    ELSE -1

\* line 144: x ** e - 1 for an exponent e = p/q between 0 and 1
PowerLess1(x, e) ==
    IF IsNaN(x) THEN NaN
    ELSE IF IsInf(x) THEN PInf
    ELSE IF x[1] < 0 THEN NaN
    ELSE LET rn == IntRoot(x[1], e[2])
             rd == IntRoot(x[2], e[2])
         IN IF rn >= 0 /\ rd >= 1 /\ (e[1] = 1 \/ (rn <= 1 /\ rd = 1))
            THEN Sub(R(rn, rd), One)
            ELSE <<x[1], x[2], e[1], e[2], 2>>

PaReturnNotCompounded(total_return, num_years, annualize_less_1y) ==
    IF annualize_less_1y THEN Div(total_return, num_years)
    ELSE Sub(Add(total_return, One), One)

\* lines 141-149, for one column
PaReturn(total_return, num_years, annualize_less_1y) ==
    IF Lt(One, num_years)
    THEN PowerLess1(Add(total_return, One), Div(One, num_years))
    ELSE IF annualize_less_1y THEN Div(total_return, num_years)
    ELSE Sub(Add(total_return, One), One)

\* lines 130-154; line 152: np.zeros_like(n) of the integer n is the scalar 0
compute_pa_return(prices, annualize_less_1y) ==
    LET total == compute_total_return(prices)
        num_years == compute_num_years(prices.index)
    IN IF Lt(Zero, num_years)
       THEN [total EXCEPT !.value =
                IF prices.shape = "Series"
                THEN PaReturn(@, num_years, annualize_less_1y)
                ELSE [k \in 1..NCols(prices) |->
                         PaReturn(@[k], num_years, annualize_less_1y)]]
       ELSE [total EXCEPT !.value = Zero]

TotalCalls ==
    [fn : {"compute_total_return"}, prices : PriceObjects]
    \cup
    [fn : {"compute_pa_return"}, prices : PriceObjects, annualize_less_1y : BOOLEAN]

InitTotal ==
    /\ pc = "call"
    /\ call \in TotalCalls
    /\ caller = [prices |-> call.prices]
    /\ result = NoResult
    /\ FeeIdle

ComputeTotalReturnCall ==
    /\ pc = "call"
    /\ call.fn = "compute_total_return"
    /\ result' = compute_total_return(call.prices)
    /\ pc' = "done"
    /\ UNCHANGED <<man_fee, perf_fee, perf_cris_dates, nav_data, net_return, call,
                   caller>>

ComputePaReturnCall ==
    /\ pc = "call"
    /\ call.fn = "compute_pa_return"
    /\ result' = compute_pa_return(call.prices, call.annualize_less_1y)
    /\ pc' = "done"
    /\ UNCHANGED <<man_fee, perf_fee, perf_cris_dates, nav_data, net_return, call,
                   caller>>

NextTotal == ComputeTotalReturnCall \/ ComputePaReturnCall

SpecTotal == InitTotal /\ [][NextTotal]_vars

---------------------------------------------------------------------------
(* Claims about compute_total_return and compute_pa_return *)

TotalDone == pc = "done" /\ call.fn = "compute_total_return"

PaDone == pc = "done" /\ call.fn = "compute_pa_return"

\* the entry of column k in a value of the shape of the prices
Entry(v, k) == IF call.prices.shape = "Series" THEN v ELSE v[k]

DegenerateSpan(prices) ==
    Len(prices.index) = 1 \/ ElapsedDays(prices.index) <= 0

\* C11: on one observation, or on zero or negative elapsed calendar days,
\* compute_total_return does not raise and returns missing for every column.
C11_DegenerateSpanMissing ==
    (TotalDone /\ DegenerateSpan(call.prices)) =>
        /\ result.status = "ok"
        /\ call.prices.shape = "DataFrame" => Len(result.value) = NCols(call.prices)
        /\ \A k \in 1..NCols(call.prices) : IsNaN(Entry(result.value, k))

\* a table of two observations on the same day, prices 1 and 16 in a column:
\* the span is zero days, every column is missing and the dates are reported
C11_Witness ==
    /\ TotalDone
    /\ call.prices.shape = "DataFrame"
    /\ call.prices.index = <<0, 1>>
    /\ call.prices.columns[1] = <<One, R(16, 1)>>
    /\ result.status = "ok"
    /\ result.value = <<NaN, NaN>>
    /\ "total return has incosistent dates" \in result.printed

\* C12: over a span of positive length compute_total_return returns, for
\* each column, the last non-missing price over the first non-missing price
\* of the column, less one.
C12_LastValidOverFirstValid ==
    (TotalDone /\ Len(call.prices.index) > 1 /\ ElapsedDays(call.prices.index) > 0) =>
        \A k \in 1..NCols(call.prices) :
            Entry(result.value, k) =
                Sub(Div(get_last_non_nan_values(call.prices.columns[k]),
                        get_first_non_nan_values(call.prices.columns[k])), One)

\* v = x^(1/y) - 1 for y > 1: v is the symbolic power, or v + 1 is the
\* non-negative rational with (v + 1)^a = x^b, where y = a/b
IsRootLess1(v, x, y) ==
    IF IsNaN(x) THEN IsNaN(v)
    ELSE IF Len(v) = 5 THEN v = <<x[1], x[2], y[2], y[1], 2>>
    ELSE /\ IsFinite(v) /\ Le(Zero, Add(v, One))
         /\ PowCapped(Add(v, One)[1], y[1]) <= 1000
         /\ PowCapped(Add(v, One)[2], y[1]) <= 1000
         /\ PowCapped(Add(v, One)[1], y[1]) = PowCapped(x[1], y[2])
         /\ PowCapped(Add(v, One)[2], y[1]) = PowCapped(x[2], y[2])

\* C13: with r the total return and y the elapsed years, compute_pa_return
\* returns (1+r)^(1/y) - 1 if y > 1; r/y with annualize_less_1y and r
\* without it if 0 < y <= 1; zero if y <= 0.
C13_PaReturnRules ==
    PaDone =>
        LET r == compute_total_return(call.prices).value
            y == compute_num_years(call.prices.index)
        IN IF Lt(One, y)
           THEN \A k \in 1..NCols(call.prices) :
                   IsRootLess1(Entry(result.value, k), Add(Entry(r, k), One), y)
           ELSE IF Lt(Zero, y)
           THEN \A k \in 1..NCols(call.prices) :
                   Entry(result.value, k) =
                      IF call.annualize_less_1y THEN Div(Entry(r, k), y)
                      ELSE Entry(r, k)
           ELSE result.value = Zero

\* a price going from 1 to 16 over 1461 days, four years: 100% a year
C13_Witness ==
    /\ PaDone
    /\ call.prices.shape = "Series"
    /\ call.prices.index = <<0, 2922>>
    /\ call.prices.columns[1] = <<One, R(16, 1)>>
    /\ result.value = One

---------------------------------------------------------------------------
(* estimate_vol, for a sample of one column                               *)
(*                                                                         *)
(* <<n, d, 3>> is the symbolic value sqrt(n/d) of a root that is not       *)
(* rational.                                                               *)

VolValues == {NaN, R(-1, 1), Zero, One, R(2, 1)}

\* the numbers of rows of a sample
VolRows == {10, 19, 20, 30}

\* line 245: the number of rows from which the standard deviation is used
StdMinRows == 20

\* a sample of n rows: the rows of head, then the value pad in every row
PaddedSample(head, pad, n) ==
    [t \in 1..n |-> IF t <= Len(head) THEN head[t] ELSE pad]

Samples ==
    SeqsUpTo(VolValues, MaxLen)
    \cup {PaddedSample(head, pad, n) :
             head \in SeqsUpTo(VolValues, MaxLen), pad \in VolValues, n \in VolRows}

\* the number of non-missing values
CountValid(x) == Cardinality({t \in 1..Len(x) : ~IsNaN(x[t])})

\* np.nanmean
NanMean(x) == Div(SumUpTo(x, Len(x)), R(CountValid(x), 1))

\* np.sqrt of a non-negative value
Sqrt(x) ==
    IF IsNaN(x) THEN NaN
    ELSE IF x = PInf THEN PInf
    ELSE IF IntRoot(x[1], 2) >= 0 /\ IntRoot(x[2], 2) >= 1
    THEN R(IntRoot(x[1], 2), IntRoot(x[2], 2))
    ELSE <<x[1], x[2], 3>>

\* np.nanstd(x, ddof=ddof): the mean of the non-missing values, then the sum
\* of their squared deviations over their number less ddof
NanStd(x, ddof) ==
    LET mean == NanMean(x)
        dev2 == [t \in 1..Len(x) |-> Mul(Sub(x[t], mean), Sub(x[t], mean))]
        dof == CountValid(x) - ddof
    IN IF dof <= 0 THEN NaN
       ELSE Sqrt(Div(SumUpTo(dev2, Len(x)), R(dof, 1)))

\* line 248: np.sqrt(np.nanmean(np.power(x, 2)))
RootMeanSquare(x) == Sqrt(NanMean([t \in 1..Len(x) |-> Mul(x[t], x[t])]))

EstimateVolAlwaysRms(sampled_returns) == Returned(RootMeanSquare(sampled_returns))

EstimateVolByValidCount(sampled_returns) ==
    IF CountValid(sampled_returns) >= StdMinRows
    THEN Returned(NanStd(sampled_returns, 1))
    ELSE Returned(RootMeanSquare(sampled_returns))

\* lines 240-249
estimate_vol(sampled_returns) ==
    LET n == Len(sampled_returns)
    IN IF n >= StdMinRows
       THEN Returned(NanStd(sampled_returns, 1))
       ELSE Returned(RootMeanSquare(sampled_returns))

VolCalls == [fn : {"estimate_vol"}, sampled_returns : Samples]

InitVol ==
    /\ pc = "call"
    /\ call \in VolCalls
    /\ caller = [sampled_returns |-> call.sampled_returns]
    /\ result = NoResult
    /\ FeeIdle

EstimateVolCall ==
    /\ pc = "call"
    /\ call.fn = "estimate_vol"
    /\ result' = estimate_vol(call.sampled_returns)
    /\ pc' = "done"
    /\ UNCHANGED <<man_fee, perf_fee, perf_cris_dates, nav_data, net_return, call,
                   caller>>

NextVol == EstimateVolCall

SpecVol == InitVol /\ [][NextVol]_vars

---------------------------------------------------------------------------
(* Claims about estimate_vol *)

VolDone == pc = "done" /\ call.fn = "estimate_vol"

\* v = sqrt(x): the symbolic root, or the non-negative rational with v^2 = x
IsSqrt(v, x) ==
    IF IsNaN(x) THEN IsNaN(v)
    ELSE IF Len(v) = 3 THEN v = <<x[1], x[2], 3>>
    ELSE Le(Zero, v) /\ Mul(v, v) = x

\* the sum of the squares of the non-missing values
SumOfSquares(x) == SumUpTo([t \in 1..Len(x) |-> Mul(x[t], x[t])], Len(x))

\* the unbiased sample variance of the m non-missing values:
\* (sum of squares - (sum)^2 / m) / (m - 1)
UnbiasedVariance(x) ==
    LET m == R(CountValid(x), 1)
        sum == SumUpTo(x, Len(x))
    IN Div(Sub(SumOfSquares(x), Div(Mul(sum, sum), m)), Sub(m, One))

\* the mean of the squares of the non-missing values
MeanSquare(x) == Div(SumOfSquares(x), R(CountValid(x), 1))

\* C20: on a sample of 20 or more observations estimate_vol returns the
\* unbiased sample standard deviation (divisor n-1) of the non-missing
\* values; on fewer than 20 it returns the root of the mean of their
\* squares, with no mean subtracted.
C20_EstimatorBySampleSize ==
    VolDone =>
        /\ result.status = "ok"
        /\ IF Len(call.sampled_returns) >= 20
           THEN IsSqrt(result.value, UnbiasedVariance(call.sampled_returns))
           ELSE IsSqrt(result.value, MeanSquare(call.sampled_returns))

\* 30 observations of 1 give the deviation 0 from their mean; 10
\* observations of 1 would give the root mean square 1
C20_Witness ==
    /\ VolDone
    /\ Len(call.sampled_returns) = 30
    /\ \A t \in 1..30 : call.sampled_returns[t] = One
    /\ result.value = Zero

\* C27: the number of rows decides the estimator, missing rows counted: a
\* sample of 20 or more rows of which fewer than 20 are non-missing gets
\* the unbiased standard deviation of its non-missing values, and a sample
\* of fewer than 20 rows the root of the mean of their squares.
C27_RowsCountedWithMissing ==
    VolDone =>
        /\ (Len(call.sampled_returns) >= 20 /\ CountValid(call.sampled_returns) < 20)
              => IsSqrt(result.value, UnbiasedVariance(call.sampled_returns))
        /\ Len(call.sampled_returns) < 20
              => IsSqrt(result.value, MeanSquare(call.sampled_returns))

\* 20 rows, -1, 0, 1 and 17 missing values: the unbiased deviation of the
\* three values is 1; the root of the mean of their squares is not
C27_Witness ==
    /\ VolDone
    /\ Len(call.sampled_returns) = 20
    /\ call.sampled_returns[1] = R(-1, 1) /\ call.sampled_returns[2] = Zero
    /\ call.sampled_returns[3] = One
    /\ \A t \in 4..20 : IsNaN(call.sampled_returns[t])
    /\ result.value = One
    /\ ~IsSqrt(result.value, MeanSquare(call.sampled_returns))

=============================================================================
